---------------------------- MODULE Spec2Model ----------------------------
(***************************************************************************)
(* Yen's K-shortest loopless paths as implemented by k_shortest_paths in  *)
(* src/k_shortest_paths.py, on top of a graph object (edge dictionary     *)
(* with per-edge attribute mappings) and a Dijkstra shortest-path oracle. *)
(*                                                                         *)
(* The graph is the adjacency mapping adj: a function from ordered node   *)
(* pairs <<u, v>> to the edge's attribute mapping.  An undirected graph   *)
(* keeps both <<u, v>> and <<v, u>>, with one shared attribute mapping.   *)
(* An attribute mapping is a set of <<key, value>> pairs, at most one per *)
(* key.                                                                    *)
(*                                                                         *)
(* One call of k_shortest_paths is one behaviour: Init draws the          *)
(* arguments, Start is lines 61-70, Exclude lines 72-98 (the state after  *)
(* it is the state in which the oracle is called), Spur lines 100-110 and *)
(* Pop lines 111-118.                                                      *)
(*                                                                         *)
(* The graph object and the oracle are networkx's; they are modelled by   *)
(* their contract.  Where the oracle has several equally short paths to   *)
(* choose from, every choice is a behaviour: its tie-breaking follows the *)
(* insertion order of the adjacency dictionaries, which the removals and  *)
(* re-insertions of the call itself change.  Weights are integers.        *)
(***************************************************************************)
EXTENDS Integers, Sequences, FiniteSets

\* ------------------------------------------------------------- bounds
\* Largest k the call is made with.
MaxK == 4
\* Largest explicit edge weight.
MaxWeight == 3
\* Largest number of edges of an input graph.
MaxEdges == 5
\* Largest number of edges of an input graph that carry a weight attribute.
MaxWeighted == 1

\* The nodes of the input graphs; every one of them is a node of G, with
\* or without edges.
Nodes == {0, 1, 2, 3}

\* The weight key (the default of the weight parameter).
WeightKey == "weight"

\* The explicit weights of the input edges: the least and the largest.
Weights == {0, MaxWeight}

VARIABLES
    directed,       \* G.is_directed()
    adj,            \* G: the current edges and their attribute mappings
    adj0,           \* G as it was when the call started
    source, target, k,
    lengths, paths, \* the accepted lists (lines 65-66)
    B,              \* the candidate heap, a set of <<length, count, path>>
    c,              \* the next value of count()
    i, j,           \* the loop indexes of lines 70 and 71
    edges_removed,  \* the exclusion record of the current spur iteration
    pc

vars == <<directed, adj, adj0, source, target, k, lengths, paths, B, c, i, j,
          edges_removed, pc>>

\* ------------------------------------------------------------- graph access

\* dict.get(key, default) on an attribute mapping.
AttrGet(attr, key, default) ==
    IF \E p \in attr : p[1] = key
    THEN (CHOOSE p \in attr : p[1] = key)[2]
    ELSE default

\* G.has_edge(u, v)
has_edge(a, u, v) == <<u, v>> \in DOMAIN a

\* The adjacency keys of the edge u-v: one in a directed graph, both
\* orientations in an undirected graph.
EdgeKeys(d, u, v) == IF d THEN {<<u, v>>} ELSE {<<u, v>>, <<v, u>>}

\* G.remove_edge(u, v)
remove_edge(d, a, u, v) ==
    [e \in (DOMAIN a) \ EdgeKeys(d, u, v) |-> a[e]]

\* dict.update(new) on an attribute mapping.
AttrUpdate(old, new) ==
    {p \in old : ~ \E q \in new : q[1] = p[1]} \cup new

\* G.add_edge(u, v, **attr): an existing edge's attributes are updated,
\* a new edge gets attr.
add_edge(d, a, u, v, attr) ==
    LET merged == IF <<u, v>> \in DOMAIN a THEN AttrUpdate(a[<<u, v>>], attr)
                  ELSE attr
    IN  [e \in (DOMAIN a) \cup EdgeKeys(d, u, v) |->
            IF e \in EdgeKeys(d, u, v) THEN merged ELSE a[e]]

\* G.add_edges_from(ebunch) for a list of (u, v, attr) triples.
RECURSIVE add_edges_from(_, _, _)
add_edges_from(d, a, ebunch) ==
    IF ebunch = <<>> THEN a
    ELSE LET e == Head(ebunch)
         IN  add_edges_from(d, add_edge(d, a, e[1], e[2], e[3]), Tail(ebunch))

\* G.successors(node): the neighbours in an undirected graph.
successors(a, node) == {v \in Nodes : <<node, v>> \in DOMAIN a}

\* G.predecessors(node)
predecessors(a, node) == {u \in Nodes : <<u, node>> \in DOMAIN a}

\* A finite set of nodes as a list, ascending.  The code iterates in the
\* graph's adjacency order; the order only decides the order of the
\* exclusion record, whose entries are distinct edges.
RECURSIVE SetToSeq(_)
SetToSeq(S) ==
    IF S = {} THEN <<>>
    ELSE LET m == CHOOSE x \in S : \A y \in S : x <= y
         IN  <<m>> \o SetToSeq(S \ {m})

\* ------------------------------------------------------------- the oracle

\* The weight Dijkstra reads on an edge: the attribute, 1 when absent.
EdgeWeight(a, u, v) == AttrGet(a[<<u, v>>], WeightKey, 1)

\* Dijkstra's main loop: dist holds the settled nodes' final distances,
\* seen the tentative distance of every discovered node.
RECURSIVE DijkstraLoop(_, _, _)
DijkstraLoop(a, dist, seen) ==
    LET fringe == (DOMAIN seen) \ (DOMAIN dist) IN
    IF fringe = {} THEN dist
    ELSE LET v == CHOOSE x \in fringe : \A y \in fringe : seen[x] <= seen[y]
             d == seen[v]
             dist2 == [x \in (DOMAIN dist) \cup {v} |->
                          IF x = v THEN d ELSE dist[x]]
             nbrs == successors(a, v) \ DOMAIN dist2
             better == {u \in nbrs : u \notin DOMAIN seen
                                     \/ d + EdgeWeight(a, v, u) < seen[u]}
             seen2 == [u \in (DOMAIN seen) \cup better |->
                          IF u \in better THEN d + EdgeWeight(a, v, u)
                          ELSE seen[u]]
         IN  DijkstraLoop(a, dist2, seen2)

\* The final distances from s of the nodes reachable from s.
Dijkstra(a, s) == DijkstraLoop(a, <<>>, [x \in {s} |-> 0])

\* The paths Dijkstra's predecessor bookkeeping can yield: from the end of
\* p to t along edges that are tight for dist, visiting no node twice.
RECURSIVE TightPaths(_, _, _, _)
TightPaths(a, dist, p, t) ==
    LET u == p[Len(p)] IN
    IF u = t THEN {p}
    ELSE UNION {TightPaths(a, dist, Append(p, v), t) :
                  v \in {x \in successors(a, u) :
                            /\ x \in DOMAIN dist
                            /\ dist[u] + EdgeWeight(a, u, x) = dist[x]
                            /\ \A n \in 1..Len(p) : p[n] # x}}

\* nx.single_source_dijkstra(G, s, t, weight): the set of results
\* <<length, path>> it can return, one per way of breaking ties among
\* equally short paths; empty when it raises NetworkXNoPath.
single_source_dijkstra(a, s, t) ==
    LET dist == Dijkstra(a, s) IN
    IF t \notin DOMAIN dist THEN {}
    ELSE {<<dist[t], p>> : p \in TightPaths(a, dist, <<s>>, t)}

\* ------------------------------------------------------------- get_path_length

RECURSIVE get_path_length(_, _)
get_path_length(a, path) ==
    IF Len(path) <= 1 THEN 0
    ELSE get_path_length(a, SubSeq(path, 1, Len(path) - 1))
         + AttrGet(a[<<path[Len(path) - 1], path[Len(path)]>>], WeightKey, 1)

\* ------------------------------------------------------------- exclusion

\* Lines 76-83: for every accepted path that starts with root_path, remove
\* its edge from index jj to index jj + 1 when the graph has it.  st is
\* the pair <<graph, exclusion record>>.  c_path[jj + 2] is the code's
\* c_path[j + 1], read only when the test of line 77 passes.
RECURSIVE ExcludeShared(_, _, _, _, _)
ExcludeShared(d, st, ps, root_path, jj) ==
    IF ps = <<>> THEN st
    ELSE LET c_path == Head(ps)
             hit == /\ Len(c_path) > jj
                    /\ root_path = SubSeq(c_path, 1, jj + 1)
             u == c_path[jj + 1]
             v == c_path[jj + 2]
             st2 == IF hit /\ has_edge(st[1], u, v)
                    THEN <<remove_edge(d, st[1], u, v),
                           Append(st[2], <<u, v, st[1][<<u, v>>]>>)>>
                    ELSE st
         IN  ExcludeShared(d, st2, Tail(ps), root_path, jj)

\* Lines 88-91: remove the edges node -> v for the listed successors.
RECURSIVE RemoveOut(_, _, _, _)
RemoveOut(d, st, node, vs) ==
    IF vs = <<>> THEN st
    ELSE LET v == Head(vs)
         IN  RemoveOut(d, <<remove_edge(d, st[1], node, v),
                            Append(st[2], <<node, v, st[1][<<node, v>>]>>)>>,
                       node, Tail(vs))

\* Lines 95-98: remove the edges u -> node for the listed predecessors.
RECURSIVE RemoveIn(_, _, _, _)
RemoveIn(d, st, node, us) ==
    IF us = <<>> THEN st
    ELSE LET u == Head(us)
         IN  RemoveIn(d, <<remove_edge(d, st[1], u, node),
                           Append(st[2], <<u, node, st[1][<<u, node>>]>>)>>,
                      node, Tail(us))

\* The out-edges only, in a directed graph too.
RemoveNodeOutOnly(d, st, node) ==
    RemoveOut(d, st, node, SetToSeq(successors(st[1], node)))

\* Lines 86-98 for one root-path node: its out-edges, then, in a directed
\* graph, its in-edges; each neighbour list is taken before the removals.
RemoveNode(d, st, node) ==
    LET out == RemoveOut(d, st, node, SetToSeq(successors(st[1], node)))
    IN  IF d THEN RemoveIn(d, out, node, SetToSeq(predecessors(out[1], node)))
        ELSE out

\* No exclusion at the root-path nodes.
ExcludeRootNone(d, st, root_path, n) == st

\* Lines 85-98: every root-path node but the last (the spur node).
RECURSIVE ExcludeRoot(_, _, _, _)
ExcludeRoot(d, st, root_path, n) ==
    IF n > Len(root_path) - 1 THEN st
    ELSE ExcludeRoot(d, RemoveNode(d, st, root_path[n]), root_path, n + 1)

\* Lines 75-98: the graph and the exclusion record at the oracle call.
Exclusion(d, a, ps, root_path, jj) ==
    ExcludeRoot(d, ExcludeShared(d, <<a, <<>>>>, ps, root_path, jj),
                root_path, 1)

\* A restoration that is skipped when the spur computation found no path.
RestoreIfFound(d, a, removed, spur_path_found) ==
    IF spur_path_found THEN add_edges_from(d, a, removed) ELSE a

\* Line 105: the graph after the restoration, which comes before the test
\* of line 106 and so does not depend on whether a spur path was found.
Restore(d, a, removed, spur_path_found) == add_edges_from(d, a, removed)

\* ------------------------------------------------------------- the heap

\* The tuple order of heap entries: by length, then by count.
EntryLess(x, y) == x[1] < y[1] \/ (x[1] = y[1] /\ x[2] < y[2])

\* A pop in insertion order, whatever the lengths.
HeapMinByCount(h) == CHOOSE x \in h : \A y \in h : x[2] <= y[2]

\* heappop's result: the least entry.
HeapMin(h) == CHOOSE x \in h : \A y \in h \ {x} : EntryLess(x, y)

\* A push that skips a path the heap already holds.
HeapPushDedup(h, len, cnt, path) ==
    IF \E e \in h : e[3] = path THEN h ELSE h \cup {<<len, cnt, path>>}

\* heappush(B, (length, next(c), path))
HeapPush(h, len, cnt, path) == h \cup {<<len, cnt, path>>}

\* ------------------------------------------------------------- the call

LastPath == paths[Len(paths)]
spur_node == LastPath[j + 1]
root_path == SubSeq(LastPath, 1, j + 1)

\* The input graphs: up to MaxEdges edges on Nodes, at most one between
\* two nodes and no self-loops; up to MaxWeighted of them carry a weight
\* attribute, the others none (and so weigh 1).  In a directed graph each
\* edge points from its smaller to its larger node unless it is flipped.
Pairs == {e \in Nodes \X Nodes : e[1] < e[2]}

Flip(e) == <<e[2], e[1]>>

MakeGraph(d, attrs, flipped) ==
    LET E == DOMAIN attrs
        keys == IF d THEN (E \ flipped) \cup {Flip(e) : e \in flipped}
                ELSE E \cup {Flip(e) : e \in E}
    IN  [e \in keys |-> IF e \in E /\ ~(d /\ e \in flipped) THEN attrs[e]
                        ELSE attrs[Flip(e)]]

\* The calls: from the first node to the last, or to itself.  Every other
\* pair of nodes is one of these up to a renaming of the nodes.
FirstNode == CHOOSE n \in Nodes : \A m \in Nodes : n <= m
LastNode == CHOOSE n \in Nodes : \A m \in Nodes : m <= n

Init ==
    /\ directed \in BOOLEAN
    /\ \E E \in SUBSET Pairs :
          /\ Cardinality(E) <= MaxEdges
          /\ \E W \in SUBSET E :
                /\ Cardinality(W) <= MaxWeighted
                /\ \E ws \in [W -> Weights] :
                      \E flipped \in (IF directed THEN SUBSET E ELSE {{}}) :
                         adj = MakeGraph(directed,
                                  [e \in E |-> IF e \in W
                                               THEN {<<WeightKey, ws[e]>>}
                                               ELSE {}],
                                  flipped)
    /\ adj0 = adj
    /\ source = FirstNode
    /\ target \in {FirstNode, LastNode}
    /\ k \in 1..MaxK
    /\ lengths = <<>>
    /\ paths = <<>>
    /\ B = {}
    /\ c = 0
    /\ i = 0
    /\ j = 0
    /\ edges_removed = <<>>
    /\ pc = "start"

\* An inner loop that stops one spur index early.
NumSpursShort(p) == Len(p) - 2

\* Line 71: the number of spur indexes of the last accepted path p.
NumSpurs(p) == Len(p) - 1

\* An outer loop that runs one iteration more.
OuterLoopRunsInclusive(ii) == ii <= k

\* Line 70: whether the outer loop runs its iteration ii.
OuterLoopRuns(ii) == ii < k

\* Where control goes at the head of the outer loop (line 70) with loop
\* index ii and last accepted path p.
LoopHead(ii, p) ==
    IF OuterLoopRuns(ii) THEN (IF NumSpurs(p) > 0 THEN "exclude" ELSE "pop")
    ELSE "done"

\* A spur computation whose failure is not caught.
OnSpurNoPathRaise(pcnext) == "nopath"

\* Lines 102-103: a spur computation without a path is swallowed, and
\* control goes on to pcnext.
OnSpurNoPath(pcnext) == pcnext

\* A candidate length that counts the root path's edges instead of
\* summing their weights.
total_path_length_hops(a, root, spur_path_length) ==
    (Len(root) - 1) + spur_path_length

\* Line 108: the length of the candidate.
total_path_length(a, root, spur_path_length) ==
    get_path_length(a, root) + spur_path_length

\* Line 107: the candidate path.
total_path(root, spur_path) == SubSeq(root, 1, Len(root) - 1) \o spur_path

\* Lines 61-70: the trivial call, the first shortest path, or its failure.
Start ==
    /\ pc = "start"
    /\ \/ /\ source = target
          /\ lengths' = <<0>>
          /\ paths' = <<<<source>>>>
          /\ pc' = "done"
          /\ UNCHANGED <<i, j>>
       \/ /\ source # target
          /\ single_source_dijkstra(adj, source, target) = {}
          /\ pc' = "nopath"
          /\ UNCHANGED <<lengths, paths, i, j>>
       \/ /\ source # target
          /\ \E r \in single_source_dijkstra(adj, source, target) :
                /\ lengths' = <<r[1]>>
                /\ paths' = <<r[2]>>
                /\ pc' = LoopHead(1, r[2])
          /\ i' = 1
          /\ j' = 0
    /\ UNCHANGED <<directed, adj, adj0, source, target, k, B, c, edges_removed>>

\* Lines 72-98: the exclusions of spur index j.
Exclude ==
    /\ pc = "exclude"
    /\ LET st == Exclusion(directed, adj, paths, root_path, j)
       IN  /\ adj' = st[1]
           /\ edges_removed' = st[2]
    /\ pc' = "spur"
    /\ UNCHANGED <<directed, adj0, source, target, k, lengths, paths, B, c, i, j>>

\* Lines 100-110: the spur path, the restoration, the push.
Spur ==
    /\ pc = "spur"
    /\ LET found == single_source_dijkstra(adj, spur_node, target)
           restored == Restore(directed, adj, edges_removed, found # {})
           pcnext == IF j + 1 < NumSpurs(LastPath) THEN "exclude" ELSE "pop"
       IN  /\ adj' = restored
           /\ \/ /\ found = {}
                 /\ pc' = OnSpurNoPath(pcnext)
                 /\ UNCHANGED <<B, c>>
              \/ /\ \E r \in found :
                       /\ B' = HeapPush(B,
                                 total_path_length(restored, root_path, r[1]),
                                 c, total_path(root_path, r[2]))
                       /\ c' = c + 1
                 /\ pc' = pcnext
    /\ j' = j + 1
    /\ UNCHANGED <<directed, adj0, source, target, k, lengths, paths, i,
                   edges_removed>>

\* Lines 111-118: accept the least candidate, or stop.
Pop ==
    /\ pc = "pop"
    /\ \/ /\ B # {}
          /\ LET e == HeapMin(B)
             IN  /\ lengths' = Append(lengths, e[1])
                 /\ paths' = Append(paths, e[3])
                 /\ B' = B \ {e}
                 /\ pc' = LoopHead(i + 1, e[3])
          /\ i' = i + 1
          /\ j' = 0
       \/ /\ B = {}
          /\ pc' = "done"
          /\ UNCHANGED <<lengths, paths, B, i, j>>
    /\ UNCHANGED <<directed, adj, adj0, source, target, k, c, edges_removed>>

Next == Start \/ Exclude \/ Spur \/ Pop

Spec == Init /\ [][Next]_vars

\* ------------------------------------------------------------- vocabulary of the claims

Returned == pc = "done"

Range(s) == {s[n] : n \in 1..Len(s)}

\* No node occurs twice in p.
Loopless(p) == \A m, n \in 1..Len(p) : m # n => p[m] # p[n]

\* The loopless paths of graph a that extend p to t.
RECURSIVE SimplePathsFrom(_, _, _)
SimplePathsFrom(a, p, t) ==
    IF p[Len(p)] = t THEN {p}
    ELSE UNION {SimplePathsFrom(a, Append(p, v), t) :
                  v \in {x \in Nodes : <<p[Len(p)], x>> \in DOMAIN a
                                       /\ x \notin Range(p)}}

\* Every loopless path from s to t in graph a.
AllSimplePaths(a, s, t) == SimplePathsFrom(a, <<s>>, t)

\* The nodes that can be reached from the nodes of S in graph a.
RECURSIVE Reach(_, _)
Reach(a, S) ==
    LET S2 == S \cup {e[2] : e \in {x \in DOMAIN a : x[1] \in S}}
    IN  IF S2 = S THEN S ELSE Reach(a, S2)

PathExists(a, s, t) == t \in Reach(a, {s})

\* The weight of path p in graph a: the sum of its edges' weights, a
\* missing weight attribute counting as 1.
RECURSIVE PathWeight(_, _)
PathWeight(a, p) ==
    IF Len(p) <= 1 THEN 0
    ELSE (LET attr == a[<<p[1], p[2]>>]
          IN  IF \E x \in attr : x[1] = WeightKey
              THEN (CHOOSE x \in attr : x[1] = WeightKey)[2]
              ELSE 1)
         + PathWeight(a, Tail(p))

\* The weights of the paths of P, ascending, one entry per path.
RECURSIVE SortedWeights(_, _)
SortedWeights(a, P) ==
    IF P = {} THEN <<>>
    ELSE LET p == CHOOSE x \in P :
                    \A y \in P : PathWeight(a, x) <= PathWeight(a, y)
         IN  <<PathWeight(a, p)>> \o SortedWeights(a, P \ {p})

Min(x, y) == IF x <= y THEN x ELSE y

\* The root-path nodes before the spur node of the current spur iteration.
RootInterior == {LastPath[n] : n \in 1..j}

\* The adjacency keys the exclusions of the current spur iteration are to
\* remove from the input graph: the edges at the root-path nodes before
\* the spur node (outgoing and incoming; in an undirected graph, incident),
\* and the edge from index j to index j + 1 of every accepted path that
\* starts with the root path.
ExpectedMissing ==
    {e \in DOMAIN adj0 : e[1] \in RootInterior \/ e[2] \in RootInterior}
    \cup
    ((DOMAIN adj0) \cap
     UNION {EdgeKeys(directed, paths[n][j + 1], paths[n][j + 2]) :
              n \in {m \in 1..Len(paths) :
                       /\ Len(paths[m]) >= j + 2
                       /\ SubSeq(paths[m], 1, j + 1) = root_path}})

\* ------------------------------------------------------------- claims

\* C1: when the call returns, the graph's edges and every edge's attribute
\* mapping are what they were when the call started, also when spur-node
\* computations found no path.
C1_GraphRestored == Returned => adj = adj0

\* A call that returned after its last accepted path's spur computations
\* all found no path, in a graph with a weighted edge.
C1_Witness ==
    /\ Returned
    /\ Len(paths) >= 2
    /\ Len(paths) < k
    /\ \E e \in DOMAIN adj0 : adj0[e] # {}
    /\ adj = adj0

\* C3: the accepted lengths are non-decreasing by index, after every pop.
C3_NonDecreasing ==
    \A n \in 1..(Len(lengths) - 1) : lengths[n] <= lengths[n + 1]

\* A returned list with a tie and a strict increase after pops.
C3_Witness ==
    /\ Returned
    /\ Len(lengths) >= 4
    /\ lengths[2] = lengths[3]
    /\ lengths[3] < lengths[4]

\* C4: every accepted path and every candidate on the heap is loopless, in
\* directed and undirected graphs.
C4_Loopless ==
    /\ \A n \in 1..Len(paths) : Loopless(paths[n])
    /\ \A e \in B : Loopless(e[3])

\* A candidate that leaves the last accepted path after a root path of two
\* nodes whose first node has other edges, in an undirected graph.
C4_Witness ==
    /\ ~directed
    /\ pc = "pop"
    /\ \E e \in B :
          /\ Len(e[3]) = 4
          /\ e[2] = c - 1
          /\ SubSeq(e[3], 1, 2) = SubSeq(LastPath, 1, 2)
          /\ e[3] # LastPath
          /\ Cardinality({v \in Nodes : <<e[3][1], v>> \in DOMAIN adj0}) >= 2

\* C5: every returned length is get_path_length of its path on the
\* restored graph.
C5_LengthsMatch ==
    Returned =>
        /\ Len(lengths) = Len(paths)
        /\ \A n \in 1..Len(paths) :
              /\ lengths[n] = get_path_length(adj, paths[n])
              /\ lengths[n] = PathWeight(adj0, paths[n])

\* A returned candidate whose length is not its number of edges.
C5_Witness ==
    /\ Returned
    /\ \E n \in 2..Len(paths) :
          /\ Len(paths[n]) >= 3
          /\ lengths[n] # Len(paths[n]) - 1
          /\ lengths[n] = get_path_length(adj, paths[n])

\* C8: lengths and paths have the same number of entries, at least 1 and
\* at most k when the call (source # target) returns; each outer iteration
\* pops at most one candidate and accepts at most one path.
C8_Sizes ==
    /\ Len(lengths) = Len(paths)
    /\ (source # target /\ pc \notin {"start", "nopath"}) =>
          /\ Len(paths) >= 1
          /\ Len(paths) <= k
          /\ Len(paths) = i
          /\ c - Cardinality(B) = i - 1

\* A call that returned exactly k > 1 paths with candidates left over.
C8_Witness ==
    /\ Returned
    /\ source # target
    /\ k >= 3
    /\ Len(paths) = k
    /\ B # {}

\* C2: for source # target joined by a path, the call returns the K
\* shortest loopless paths: min(k, N) pairwise distinct loopless paths from
\* source to target, N being the number of such paths, whose lengths are
\* the first min(k, N) entries of the ascending list of all their lengths.
C2_KShortest ==
    (Returned /\ source # target) =>
        LET all == AllSimplePaths(adj0, source, target)
            m == Min(k, Cardinality(all))
        IN  /\ Len(paths) = m
            /\ \A x, y \in 1..Len(paths) : x # y => paths[x] # paths[y]
            /\ \A n \in 1..Len(paths) : paths[n] \in all
            /\ lengths = SubSeq(SortedWeights(adj0, all), 1, m)

\* C6: the no-path error is signalled exactly when source # target and the
\* input graph has no path from source to target; it comes from the first
\* shortest-path computation and leaves no result; a spur computation
\* without a path never ends the call.
C6_NoPathError ==
    /\ pc = "nopath" =>
          /\ source # target
          /\ ~PathExists(adj0, source, target)
          /\ lengths = <<>>
          /\ paths = <<>>
          /\ i = 0
    /\ pc \notin {"start", "nopath"} =>
          (source = target \/ PathExists(adj0, source, target))

\* The error of a call on a graph in which the source has edges.
C6_Witness ==
    /\ pc = "nopath"
    /\ \E e \in DOMAIN adj0 : e[1] = source
    /\ \E e \in DOMAIN adj0 : e[2] = target

\* C7: a call (source # target) that returns fewer than k paths found the
\* heap empty, and every loopless path from source to target is in the
\* returned list, so fewer than k of them exist.
C7_ShortOnlyWhenExhausted ==
    (Returned /\ source # target /\ Len(paths) < k) =>
        /\ B = {}
        /\ AllSimplePaths(adj0, source, target) \subseteq Range(paths)
        /\ Cardinality(AllSimplePaths(adj0, source, target)) < k

\* A call that returned three paths, fewer than k.
C7_Witness ==
    /\ Returned
    /\ source # target
    /\ Len(paths) = 3
    /\ Len(paths) < k
    /\ Cardinality(AllSimplePaths(adj0, source, target)) = 3

\* C9: at every spur-node call of the oracle the graph is the input graph
\* minus exactly the edges at the root-path nodes before the spur node and
\* the next edges of the accepted paths that start with the root path; the
\* exclusion record holds exactly those edges, once each, with their
\* original attribute mappings.
C9_ExclusionExact ==
    pc = "spur" =>
        /\ DOMAIN adj = (DOMAIN adj0) \ ExpectedMissing
        /\ \A e \in DOMAIN adj : adj[e] = adj0[e]
        /\ UNION {EdgeKeys(directed, r[1], r[2]) : r \in Range(edges_removed)}
              = ExpectedMissing
        /\ \A n \in 1..Len(edges_removed) :
              LET r == edges_removed[n]
              IN  /\ <<r[1], r[2]>> \in DOMAIN adj0
                  /\ r[3] = adj0[<<r[1], r[2]>>]
                  /\ \A m \in 1..Len(edges_removed) :
                        m # n => EdgeKeys(directed, edges_removed[m][1],
                                          edges_removed[m][2])
                                 # EdgeKeys(directed, r[1], r[2])

\* An oracle call in a directed graph whose exclusions removed an edge
\* into a root-path node, the next edges of two accepted paths, and left a
\* weighted edge in place.
C9_Witness ==
    /\ pc = "spur"
    /\ directed
    /\ j >= 1
    /\ \E r \in Range(edges_removed) :
          r[2] \in RootInterior /\ r[1] \notin RootInterior
    /\ Cardinality({n \in 1..Len(paths) :
                      /\ Len(paths[n]) >= j + 2
                      /\ SubSeq(paths[n], 1, j + 1) = root_path}) >= 2
    /\ DOMAIN adj # {}

\* C10: no deduplication: a spur path that was found is pushed whatever
\* the heap and the accepted list hold, so a path can be on the heap twice
\* and be returned twice.
C10_NoDedup ==
    [][(pc = "spur" /\ single_source_dijkstra(adj, spur_node, target) # {})
          => /\ c' = c + 1
             /\ Cardinality(B') = Cardinality(B) + 1]_vars

\* A returned list that holds one path twice.
C10_Witness ==
    /\ Returned
    /\ \E x, y \in 1..Len(paths) : x # y /\ paths[x] = paths[y]

=============================================================================
